---- MODULE Spec2Model ----
(***************************************************************************)
(* Model of warcex: the plugin registry and URL router of plugmanager.py,  *)
(* the two-pass request/response pairing and the extract/finalise driver   *)
(* of processor.py, and the scratch-directory life cycle of the            *)
(* WACZProcessor classes of processor.py and wacz.py.                      *)
(*                                                                         *)
(* Strings are tuples of one-character strings, so that pattern            *)
(* compilation, regular-expression search and query parsing are computed   *)
(* character by character as the library calls of the source compute them. *)
(* RequestData and ResponseData are modelled as the records of the keyword *)
(* fields processor.py passes to them.                                     *)
(***************************************************************************)
EXTENDS Integers, Sequences, FiniteSets, TLC

\* ------------------------------------------------------------------ bounds
MaxSideloads == 1   \* manual_plugins entries handed to one processor
MaxUnits     == 2   \* WARC members in the container
MaxRecs      == 2   \* capture records in one WARC member
MaxRuns      == 1   \* calls of extract() on one processor
MaxRepeats   == 2   \* calls of extract() on one processor over one unchanging archive
MaxOpens     == 2   \* scratch directories created by one processor
MaxCloses    == 2   \* calls of __exit__ / close() on one processor
MaxQueryLen  == 7   \* characters in a query string
MaxPairRecs  == 3   \* capture records in a WARC member whose pairing is examined alone
MaxPatLen    == 3   \* characters in an endpoint examined alone
MaxUrlLen    == 2   \* characters in a URL matched against that endpoint

\* ------------------------------------------------------------- characters
NL == "\n"
BS == "\\"
None  == "None"            \* Python's None in place of a name or a record id
NoUrl == <<"None">>        \* Python's None in place of a URL

RECURSIVE Concat(_)
\* "".join(parts)
Concat(parts) ==
    IF parts = <<>> THEN <<>> ELSE Head(parts) \o Concat(Tail(parts))

\* re.escape: every character that is not alphanumeric and is special to the
\* regular-expression syntax gets a backslash ("/" is not special).
ReSpecial == {"*", ".", "^", "$", "?", "&", "#", BS, NL}
re_escape(s) ==
    Concat([i \in 1..Len(s) |-> IF s[i] \in ReSpecial THEN <<BS, s[i]>> ELSE <<s[i]>>])

\* --------------------------------------------------- regular expressions
\* The syntax covered: literals, backslash escapes of non-alphanumerics,
\* "^", "$", "." and the postfix "*".

RECURSIVE ReValidFrom(_, _, _)
\* re.compile(regex) does not raise re.error: a "*" needs an atom to repeat
\* and a backslash needs a character to escape.
ReValidFrom(re, i, prevAtom) ==
    IF i > Len(re) THEN TRUE
    ELSE IF re[i] = BS THEN i + 1 <= Len(re) /\ ReValidFrom(re, i + 2, TRUE)
    ELSE IF re[i] = "*" THEN prevAtom /\ ReValidFrom(re, i + 1, FALSE)
    ELSE IF re[i] \in {"^", "$"} THEN ReValidFrom(re, i + 1, FALSE)
    ELSE ReValidFrom(re, i + 1, TRUE)

ReValid(re) == ReValidFrom(re, 1, FALSE)

\* one atom of the regex, at position i, against one character
AtomMatches(re, i, ch) ==
    IF re[i] = BS THEN re[i + 1] = ch
    ELSE IF re[i] = "." THEN ch # NL
    ELSE re[i] = ch

\* "$" matches at the end of the string and before a final newline
AtEnd(s, j) == j = Len(s) + 1 \/ (j = Len(s) /\ s[j] = NL)

RECURSIVE MatchHere(_, _, _, _)
\* the regex from position i matches the string from position j
MatchHere(re, i, s, j) ==
    IF i > Len(re) THEN TRUE
    ELSE IF re[i] = "^" THEN j = 1 /\ MatchHere(re, i + 1, s, j)
    ELSE IF re[i] = "$" THEN AtEnd(s, j) /\ MatchHere(re, i + 1, s, j)
    ELSE LET w == IF re[i] = BS THEN 2 ELSE 1
         IN  IF i + w <= Len(re) /\ re[i + w] = "*"
             THEN \E k \in j..(Len(s) + 1) :
                     /\ \A m \in j..(k - 1) : AtomMatches(re, i, s[m])
                     /\ MatchHere(re, i + w + 1, s, k)
             ELSE /\ j <= Len(s)
                  /\ AtomMatches(re, i, s[j])
                  /\ MatchHere(re, i + w, s, j + 1)

\* pattern.search(url) is not None
search(re, url) == \E j \in 1..(Len(url) + 1) : MatchHere(re, 1, url, j)

\* ------------------------------------------------------------- handlers
\* A plugin file offered to sideload_plugin: whether the path exists,
\* whether the module holds a WACZPlugin subclass, whether its constructor
\* returns, and what the instance reports from get_info() / get_endpoints().
\* The first file reports the name of the built-in plugin.
PluginFile(ex, cl, ct, n, eps) ==
    [exists |-> ex, hasClass |-> cl, ctorOk |-> ct, name |-> n, endpoints |-> eps]

PluginFiles ==
    { PluginFile(TRUE, TRUE, TRUE, "fb", << <<"a", "*">> >>),
      PluginFile(TRUE, TRUE, TRUE, "q", << <<"a", "b">>, <<"/", "^", "a", "$", "/">> >>),
      PluginFile(TRUE, TRUE, TRUE, "r", << <<"a">>, <<"/", "*", "/">> >>),
      PluginFile(TRUE, TRUE, FALSE, "s", << <<"a">> >>),
      PluginFile(TRUE, FALSE, TRUE, "s", <<>>),
      PluginFile(FALSE, FALSE, TRUE, "s", <<>>) }

\* the handlers discover_plugins finds in warcex.plugins: the Facebook
\* groups plugin, with an exact and a prefix endpoint
Builtins == << [name |-> "fb", endpoints |-> << <<"a", "b">>, <<"b", "*">> >>] >>

Names == {"fb", "q", "r", "s"}

\* request URLs that occur in archives, and URLs handed to the router
URLs == { <<"a", "b">>, <<"a">> }
ProbeURLs == URLs \cup { <<"b">>, <<"b", "a">>, <<>> }

\* -------------------------------------------------------------- registry
\* the regular expression _build_pattern_map derives from one endpoint
regex_pattern(url_pattern) ==
    LET n == Len(url_pattern) IN
    IF n >= 1 /\ url_pattern[1] = "/" /\ url_pattern[n] = "/"
    THEN SubSeq(url_pattern, 2, n - 1)
    ELSE IF n >= 1 /\ url_pattern[n] = "*"
    THEN <<"^">> \o re_escape(SubSeq(url_pattern, 1, n - 1)) \o <<".", "*", "$">>
    ELSE <<"^">> \o re_escape(url_pattern) \o <<"$">>

RECURSIVE Flatten(_, _)
\* every (plugin, endpoint) combination from plugin number i on, in the
\* order of the two nested loops of _build_pattern_map
Flatten(plugs, i) ==
    IF i > Len(plugs) THEN <<>>
    ELSE [j \in 1..Len(plugs[i].endpoints) |->
             [pat |-> plugs[i].endpoints[j], plugin |-> i]] \o Flatten(plugs, i + 1)

\* d[key] = value on a dict kept as the sequence of its items in insertion
\* order: an existing key keeps its place and takes the new value
DictSet(d, key, value) ==
    IF \E i \in 1..Len(d) : d[i].key = key
    THEN [i \in 1..Len(d) |-> IF d[i].key = key THEN [key |-> key, value |-> value] ELSE d[i]]
    ELSE Append(d, [key |-> key, value |-> value])

DictHas(d, key) == \E i \in 1..Len(d) : d[i].key = key
DictGet(d, key) == d[CHOOSE i \in 1..Len(d) : d[i].key = key].value

RECURSIVE BuildFrom(_, _, _)
\* the loop body of _build_pattern_map over the flattened endpoints; compiled
\* patterns of the same regex text are the same dict key
BuildFrom(entries, i, pattern_map) ==
    IF i > Len(entries) THEN pattern_map
    ELSE BuildFrom(entries, i + 1,
                   DictSet(pattern_map, regex_pattern(entries[i].pat), entries[i].plugin))

\* re.compile raises for no endpoint of the registry
BuildCompiles(plugs) ==
    \A i \in 1..Len(plugs) : \A j \in 1..Len(plugs[i].endpoints) :
        ReValid(regex_pattern(plugs[i].endpoints[j]))

_build_pattern_map(plugs) == BuildFrom(Flatten(plugs, 1), 1, <<>>)

\* the entries of the pattern map get_plugin_for_url may return for a URL:
\* all of them without `only`; with `only`, those of the plugins of that name
Eligible(plugs, pmap, url, only_) ==
    { i \in 1..Len(pmap) :
         /\ only_ # None => plugs[pmap[i].value].name = only_
         /\ search(pmap[i].key, url) }

\* variant: with `only`, the first plugin of that name is returned as soon as
\* any entry of the pattern map matches, whoever owns the entry
get_plugin_for_url_anyowner(plugs, pmap, url, only_) ==
    LET e == { i \in 1..Len(pmap) : search(pmap[i].key, url) } IN
    IF only_ # None /\ ~ \E p \in 1..Len(plugs) : plugs[p].name = only_ THEN 0
    ELSE IF e = {} THEN 0
    ELSE IF only_ # None
    THEN CHOOSE p \in 1..Len(plugs) :
            /\ plugs[p].name = only_
            /\ \A r \in 1..Len(plugs) : plugs[r].name = only_ => p <= r
    ELSE pmap[CHOOSE i \in e : \A k \in e : i <= k].value

\* get_plugin_for_url: the plugin (its position in self.plugins) of the first
\* eligible entry, 0 for None
get_plugin_for_url(plugs, pmap, url, only_) ==
    LET e == Eligible(plugs, pmap, url, only_) IN
    IF only_ # None /\ ~ \E p \in 1..Len(plugs) : plugs[p].name = only_ THEN 0
    ELSE IF e = {} THEN 0
    ELSE pmap[CHOOSE i \in e : \A k \in e : i <= k].value

\* stats["plugins_used"] after get_plugin_for_url
UsedAfter(plugs, used, plugin) ==
    IF plugin = 0 THEN used ELSE used \cup {plugs[plugin].name}

\* ------------------------------------------------------ capture records
RequestIds  == {"q1", "q2"}
ResponseIds == {"r1", "r2"}

Request(u, id, conc, h) ==
    [type |-> "request", url |-> u, id |-> id, conc |-> conc, http |-> h]
Response(id, h) ==
    [type |-> "response", url |-> NoUrl, id |-> id, conc |-> None, http |-> h]

\* the records a WARC member may hold: a request for each URL, both
\* concurrent to the same response, that response, and a request whose
\* http_headers is None
Records ==
    { Request(<<"a", "b">>, "q1", "r1", TRUE),
      Request(<<"a">>, "q2", "r1", TRUE),
      Request(<<"a", "b">>, "q1", "r1", FALSE),
      Response("r1", TRUE) }

Units == UNION { [1..n -> Records] : n \in 0..MaxRecs }

\* ------------------------------------------------- the pairing passes
\* First pass of iter_request_response_pairs over the records from position
\* i on: request_info_map (a dict keyed by WARC-Record-ID), plugins_used as
\* get_plugin_for_url leaves it, and whether reading record.http_headers of
\* a matched request raised because it is None.
RECURSIVE Pass1(_, _, _, _, _, _, _)
Pass1(recs, i, plugs, pmap, only_, info, used) ==
    IF i > Len(recs) THEN [info |-> info, used |-> used, raised |-> FALSE]
    ELSE LET r == recs[i] IN
         IF r.type = "request" /\ r.url # NoUrl /\ r.conc # None /\ r.id # None
         THEN LET plugin == get_plugin_for_url(plugs, pmap, r.url, only_)
                  used2  == UsedAfter(plugs, used, plugin)
              IN  IF plugin = 0
                  THEN Pass1(recs, i + 1, plugs, pmap, only_, info, used2)
                  ELSE IF ~ r.http
                  THEN [info |-> info, used |-> used2, raised |-> TRUE]
                  ELSE Pass1(recs, i + 1, plugs, pmap, only_,
                             DictSet(info, r.id,
                                     [url |-> r.url, conc |-> r.conc, plugin |-> plugin,
                                      rec |-> i]),
                             used2)
         ELSE Pass1(recs, i + 1, plugs, pmap, only_, info, used)

\* all_concurrent_ids
ConcurrentIds(info) == { info[k].value.conc : k \in 1..Len(info) }

\* variant: a response is kept only when a request concurrent to it stands
\* before it in the member, as a single pass over the records would do
Needed_single_pass(recs, i, wanted) ==
    /\ recs[i].id # None
    /\ \E j \in 1..(i - 1) :
          recs[j].type = "request" /\ recs[j].conc = recs[i].id

\* the record at position i has a WARC-Record-ID that a retained request is
\* concurrent to
Needed(recs, i, wanted) == recs[i].id # None /\ recs[i].id \in wanted

\* Second pass: response_map (a dict keyed by WARC-Record-ID, the value
\* standing for the ResponseData built from the record at that position),
\* and whether reading record.http_headers of a wanted response raised.
RECURSIVE Pass2(_, _, _, _)
Pass2(recs, i, wanted, response_map) ==
    IF i > Len(recs) THEN [responses |-> response_map, raised |-> FALSE]
    ELSE LET r == recs[i] IN
         IF r.type = "response" /\ Needed(recs, i, wanted)
         THEN IF ~ r.http
              THEN [responses |-> response_map, raised |-> TRUE]
              ELSE Pass2(recs, i + 1, wanted, DictSet(response_map, r.id, i))
         ELSE Pass2(recs, i + 1, wanted, response_map)

RECURSIVE YieldLoop(_, _, _)
\* the tuples the final loop yields: one for every retained request whose
\* concurrent_to is a key of response_map, in request_info_map order
YieldLoop(info, k, response_map) ==
    IF k > Len(info) THEN <<>>
    ELSE LET request_info == info[k].value IN
         IF DictHas(response_map, request_info.conc)
         THEN << [url      |-> request_info.url,
                  request  |-> request_info.rec,
                  response |-> DictGet(response_map, request_info.conc),
                  plugin   |-> request_info.plugin] >>
              \o YieldLoop(info, k + 1, response_map)
         ELSE YieldLoop(info, k + 1, response_map)

\* One WARC member through both passes and the yield loop.
ScanUnit(recs, plugs, pmap, only_, used) ==
    LET p1 == Pass1(recs, 1, plugs, pmap, only_, <<>>, used) IN
    IF p1.raised THEN [pairs |-> <<>>, used |-> p1.used, raised |-> TRUE]
    ELSE IF p1.info = <<>> THEN [pairs |-> <<>>, used |-> p1.used, raised |-> FALSE]
    ELSE LET p2 == Pass2(recs, 1, ConcurrentIds(p1.info), <<>>) IN
         IF p2.raised THEN [pairs |-> <<>>, used |-> p1.used, raised |-> TRUE]
         ELSE [pairs  |-> YieldLoop(p1.info, 1, p2.responses),
               used   |-> p1.used,
               raised |-> FALSE]

\* ------------------------------------------------------------------ state
VARIABLES
    cls,                   \* which WACZProcessor class: "processor" (processor.py) or "wacz" (wacz.py)
    plugins,               \* PluginManager.plugins
    pattern_to_plugin_map, \* PluginManager.pattern_to_plugin_map, in dict order
    plugins_used,          \* PluginManager.stats["plugins_used"]
    only,                  \* WACZProcessor.only
    file_list,             \* WACZProcessor._file_list: member 0 is metadata, members >= 1 end in .warc
    temp_dir,              \* WACZProcessor._temp_dir, 0 for None
    zip_ref,               \* WACZProcessor._zip_ref is an open ZipFile
    is_open,               \* wacz.py WACZProcessor._is_open
    extracted_files,       \* WACZProcessor._extracted_files
    dirs,                  \* the scratch directories that exist on disk
    copies,                \* <<directory, member>>: the member's copy exists in the directory
    created,               \* how many scratch directories mkdtemp has made
    pc,                    \* where the caller of the processor stands
    loaded,                \* manual_plugins entries handed to sideload_plugin so far
    sideload_result,       \* how the last sideload_plugin call ended
    unit,                  \* position in get_warc_paths() of the next member to read
    pending,               \* tuples of the current member not yet taken from the generator
    plugin_counts,         \* extract(): plugin_counts
    total_processed,       \* extract(): total_processed
    fin,                   \* finalise_all_plugins(): position in self.plugins
    runs,                  \* extract() calls that returned
    result,                \* what the extract() call in progress or last ended has returned
    ctx,                   \* "never" entered, "in" the with-block, "out" after __exit__
    opened_dir,            \* the directory made by the latest __enter__ / _open
    hist,                  \* what the handlers observed during the current run
    closes,                \* how many times __exit__ / close() has run
    precs,                 \* the records of a WARC member whose pairing is examined alone
    scan,                  \* what the two passes and the yield loop made of precs
    error,                 \* what the validation of __init__ met at the path, and the exception it raised
    qurl,                  \* a request URL whose query string is parsed
    parsed,                \* query_data has been computed from qurl
    query_data,            \* RequestData.query_data, a dict in insertion order
    mpattern,              \* an endpoint declared by a handler, examined alone
    murl,                  \* a URL handed to the router against mpattern
    mres,                  \* whether mpattern compiled and whether the router matched murl
    archive                \* the records of each WARC member of the container, once a run has read it

vars == << cls, plugins, pattern_to_plugin_map, plugins_used, only, file_list,
           temp_dir, zip_ref, is_open, extracted_files, dirs, copies, created, pc,
           loaded, sideload_result, unit, pending, plugin_counts,
           total_processed, fin, runs, result, ctx, opened_dir, hist, closes,
           error, precs, scan, qurl, parsed, query_data, mpattern, murl, mres, archive >>

registryVars == << plugins, pattern_to_plugin_map >>
scratchVars  == << temp_dir, zip_ref, is_open, extracted_files, dirs, copies, created, opened_dir >>
runVars      == << unit, pending, plugin_counts, total_processed, fin, result >>
queryVars    == << qurl, parsed, query_data >>
pairVars     == << precs, scan >>
matchVars    == << mpattern, murl, mres >>

\* get_warc_paths()
get_warc_paths(files) == SelectSeq(files, LAMBDA m : m >= 1)

NoResult == [total_processed |-> -1, plugin_counts |-> <<>>]

\* no WARC member has been scanned alone
NoScan == [pairs |-> <<>>, used |-> {}, raised |-> FALSE, done |-> FALSE]

\* per-handler observations of one run, handlers named by their position in
\* self.plugins: tuples yielded for the handler, extract() calls made,
\* extract() calls that returned, finalise() calls made; whether some
\* extract() raised, whether an extract() call was made after that, and
\* whether some request read so far has a URL that an endpoint declared by an
\* eligible handler matches, whether any request with a URL was read, and
\* how many WARC members the generator has read; whether some finalise()
\* raised and whether a finalise() call was made after that, the handlers
\* in the order of their finalise() calls, and the handler of the first
\* extract() call (0 before it)
Handlers == 1..(Len(Builtins) + MaxSideloads)
\* no _extract_file call yet
NoCall == [file |-> 0 - 1, raised |-> FALSE]
\* no endpoint has been tried against a URL
NoMatch == [done |-> FALSE, compiled |-> FALSE, matched |-> FALSE]
\* a WARC member whose records no run has read yet
NotRead == [read |-> FALSE, recs |-> <<>>]
NoHist ==
    [yielded |-> [h \in Handlers |-> 0], called |-> [h \in Handlers |-> 0],
     returned |-> [h \in Handlers |-> 0], finalised |-> [h \in Handlers |-> 0],
     raise_seen |-> FALSE, after_raise |-> FALSE, matchable |-> FALSE,
     requests |-> FALSE, scanned |-> 0,
     fin_raised |-> FALSE, fin_after_raise |-> FALSE, fin_order |-> <<>>,
     first |-> 0,
     copied |-> {}, recopied |-> FALSE, paths |-> {}, repeat |-> FALSE,
     last |-> NoCall, resolved |-> {}]

\* a caller opened or closed the processor: what _extract_file did is
\* remembered from here on
NewPeriod(h) ==
    [h EXCEPT !.copied = {}, !.recopied = FALSE, !.paths = {},
              !.repeat = FALSE, !.last = NoCall]

\* a call of _extract_file(file_path) with outcome x is remembered: the
\* members copied, whether one was copied again, the paths returned (as the
\* directory they lie in), whether a member was answered again, and the
\* last call
Recorded(h, file_path, x) ==
    [h EXCEPT !.copied = IF x.copied THEN @ \cup {file_path} ELSE @,
              !.recopied = @ \/ (x.copied /\ file_path \in h.copied),
              !.paths = IF x.raised THEN @ ELSE @ \cup {<<file_path, x.path>>},
              !.repeat = @ \/ (~ x.raised /\ \E p \in h.paths : p[1] = file_path),
              !.last = [file |-> file_path, raised |-> x.raised]]

InitProcessor ==
    /\ cls \in {"processor", "wacz"}
    /\ plugins = Builtins
    /\ pattern_to_plugin_map = _build_pattern_map(Builtins)
    /\ plugins_used = {}
    /\ only \in IF cls = "processor" THEN {None, "fb"} ELSE {None}
    /\ file_list \in { [i \in 1..(n + 1) |-> i - 1] : n \in 0..MaxUnits }
    /\ temp_dir = 0
    /\ zip_ref = FALSE
    /\ is_open = FALSE
    /\ extracted_files = {}
    /\ dirs = {}
    /\ copies = {}
    /\ created = 0
    /\ pc = "validate"
    /\ loaded = 0
    /\ sideload_result = "none"
    /\ unit = 1
    /\ pending = <<>>
    /\ plugin_counts = <<>>
    /\ total_processed = 0
    /\ fin = 1
    /\ runs = 0
    /\ result = NoResult
    /\ ctx = "never"
    /\ opened_dir = 0
    /\ hist = NoHist
    /\ closes = 0
    /\ error = [path |-> "unchecked", raised |-> "none"]
    /\ archive = [u \in 1..MaxUnits |-> NotRead]

\* a processor of processor.py
Init ==
    /\ InitProcessor
    /\ cls = "processor"
    /\ precs = <<>>
    /\ scan = NoScan
    /\ qurl = <<>>
    /\ parsed = FALSE
    /\ query_data = <<>>
    /\ mpattern = <<>> /\ murl = <<>> /\ mres = NoMatch

\* ---------------------------------------------------------- construction
\* what the validation of __init__ can meet: the path is a readable zip
\* file, the path does not exist, ZipFile raises BadZipFile, or ZipFile
\* raises an OSError (no read permission, the path is a directory)
PathStates == {"ok", "missing", "badzip", "unreadable"}

\* __init__, validation: os.path.exists fails -> FileNotFoundError; the
\* except clause turns BadZipFile, and nothing else, into ValueError
ValidationError(path_state) ==
    CASE path_state = "ok"         -> "none"
      [] path_state = "missing"    -> "FileNotFoundError"
      [] path_state = "badzip"     -> "ValueError"
      [] path_state = "unreadable" -> "OSError"

\* processor.py WACZProcessor.__init__ up to the loading of manual_plugins:
\* the path must exist and its zip directory must be readable.
Validate ==
    /\ cls = "processor"
    /\ pc = "validate"
    /\ \E path_state \in PathStates :
          /\ error' = [path |-> path_state, raised |-> ValidationError(path_state)]
          /\ pc' = IF error'.raised = "none" THEN "load" ELSE "failed"
    /\ UNCHANGED << cls, queryVars, pairVars, matchVars, archive, closes, plugins, pattern_to_plugin_map, plugins_used, only,
                    file_list, scratchVars, loaded, sideload_result, runVars,
                    runs, ctx, hist >>

\* PluginManager.sideload_plugin(plugin_file), called from the manual_plugins
\* loop of __init__, which re-raises what it raises.
sideload_plugin(f) ==
    LET plugin_instance == [name |-> f.name, endpoints |-> f.endpoints]
        appended == Append(plugins, plugin_instance)
    IN  IF ~ f.exists \/ ~ f.hasClass \/ ~ f.ctorOk
        THEN /\ sideload_result' = "raised"
             /\ UNCHANGED registryVars
        ELSE /\ plugins' = appended
             /\ IF BuildCompiles(appended)
                THEN /\ pattern_to_plugin_map' = _build_pattern_map(appended)
                     /\ sideload_result' = "ok"
                ELSE /\ pattern_to_plugin_map' = pattern_to_plugin_map
                     /\ sideload_result' = "raised"

Sideload ==
    /\ cls = "processor"
    /\ pc = "load"
    /\ loaded < MaxSideloads
    /\ \E f \in PluginFiles : sideload_plugin(f)
    /\ loaded' = loaded + 1
    /\ pc' = IF sideload_result' = "raised" THEN "failed" ELSE "load"
    /\ UNCHANGED << cls, error, queryVars, pairVars, matchVars, archive, closes, plugins_used, only, file_list, scratchVars, runVars,
                    runs, ctx, hist >>

\* __init__ returns after the last manual plugin
Constructed ==
    /\ cls = "processor"
    /\ pc = "load"
    /\ pc' = "idle"
    /\ UNCHANGED << cls, error, queryVars, pairVars, matchVars, archive, closes, plugins, pattern_to_plugin_map, plugins_used, only,
                    file_list, scratchVars, loaded, sideload_result, runVars,
                    runs, ctx, hist >>

\* ------------------------------------------------------- scratch storage
\* a path that is not a member of the container
NotAMember == MaxUnits + 7

Members(files) == { files[i] : i \in 1..Len(files) }

\* processor.py __enter__: mkdtemp, then ZipFile(...), which may raise and
\* then leaves _zip_ref as it was
__enter__(zip_ok) ==
    /\ created' = created + 1
    /\ temp_dir' = created + 1
    /\ opened_dir' = created + 1
    /\ dirs' = dirs \cup {created + 1}
    /\ zip_ref' = (zip_ok \/ zip_ref)

\* __enter__ called by a caller that goes on after a failure
Enter ==
    /\ cls = "processor"
    /\ pc = "idle"
    /\ created < MaxOpens
    /\ \E zip_ok \in BOOLEAN :
          /\ __enter__(zip_ok)
          /\ ctx' = IF zip_ok THEN "in" ELSE ctx
    /\ hist' = NewPeriod(hist)
    /\ UNCHANGED << cls, error, queryVars, pairVars, matchVars, archive, closes, plugins, pattern_to_plugin_map, plugins_used, only,
                    file_list, is_open, extracted_files, copies, pc, loaded,
                    sideload_result, runVars, runs >>

\* cli.py extract: the with statement calls __enter__ once; when it raises,
\* the block is not entered, __exit__ is not called and the command ends
WithEnter ==
    /\ cls = "processor"
    /\ pc = "idle"
    /\ ctx = "never"
    /\ \E zip_ok \in BOOLEAN :
          /\ __enter__(zip_ok)
          /\ ctx' = IF zip_ok THEN "in" ELSE ctx
          /\ pc' = IF zip_ok THEN "idle" ELSE "aborted"
    /\ UNCHANGED << cls, error, queryVars, pairVars, matchVars, archive, closes, plugins, pattern_to_plugin_map, plugins_used, only,
                    file_list, is_open, extracted_files, copies, loaded,
                    sideload_result, runVars, runs, hist >>

\* variant: the set of extracted members is not reset
close_keeps_cache ==
    /\ zip_ref' = FALSE
    /\ IF temp_dir # 0 /\ temp_dir \in dirs
       THEN /\ dirs' = dirs \ {temp_dir}
            /\ copies' = { c \in copies : c[1] # temp_dir }
            /\ temp_dir' = 0
       ELSE UNCHANGED << dirs, copies, temp_dir >>
    /\ is_open' = FALSE
    /\ extracted_files' = extracted_files

\* variant: nothing is cleaned up unless the zip handle is open
close_needs_zip ==
    IF zip_ref
    THEN /\ zip_ref' = FALSE
         /\ IF temp_dir # 0 /\ temp_dir \in dirs
            THEN /\ dirs' = dirs \ {temp_dir}
                 /\ copies' = { c \in copies : c[1] # temp_dir }
                 /\ temp_dir' = 0
            ELSE UNCHANGED << dirs, copies, temp_dir >>
         /\ is_open' = FALSE
         /\ extracted_files' = {}
    ELSE UNCHANGED << zip_ref, dirs, copies, temp_dir, is_open, extracted_files >>

\* processor.py __exit__ and wacz.py close(): close the zip handle, remove
\* the scratch directory if there is one, forget the extracted members.
close ==
    /\ zip_ref' = FALSE
    /\ IF temp_dir # 0 /\ temp_dir \in dirs
       THEN /\ dirs' = dirs \ {temp_dir}
            /\ copies' = { c \in copies : c[1] # temp_dir }
            /\ temp_dir' = 0
       ELSE UNCHANGED << dirs, copies, temp_dir >>
    /\ is_open' = FALSE
    /\ extracted_files' = {}

\* __exit__ or close() called at any time by the caller
Exit ==
    /\ pc \in {"idle", "raised", "aborted"}
    /\ closes < MaxCloses
    /\ close
    /\ closes' = closes + 1
    /\ ctx' = "out"
    /\ pc' = IF pc = "idle" THEN "idle" ELSE "aborted"
    /\ hist' = NewPeriod(hist)
    /\ UNCHANGED << cls, error, queryVars, pairVars, matchVars, archive, plugins, pattern_to_plugin_map, plugins_used, only,
                    file_list, created, opened_dir, loaded, sideload_result,
                    runVars, runs >>

\* cli.py extract: the with-block is left, after its body ended or because
\* an exception went through it, and the with statement calls __exit__
WithExit ==
    /\ ctx = "in"
    /\ pc \in {"idle", "raised"}
    /\ close
    /\ closes' = closes + 1
    /\ ctx' = "out"
    /\ pc' = IF pc = "idle" THEN "idle" ELSE "aborted"
    /\ UNCHANGED << cls, error, queryVars, pairVars, matchVars, archive, plugins, pattern_to_plugin_map, plugins_used, only,
                    file_list, created, opened_dir, loaded, sideload_result,
                    runVars, runs, hist >>

\* variant: the set of extracted members is not consulted
_extract_file_nocache(file_path) ==
    IF file_path \notin Members(file_list) \/ temp_dir = 0 \/ ~ zip_ref
    THEN [raised |-> TRUE, copied |-> FALSE, path |-> 0,
          extracted_files |-> extracted_files, copies |-> copies]
    ELSE [raised |-> FALSE, copied |-> TRUE, path |-> temp_dir,
          extracted_files |-> extracted_files \cup {file_path},
          copies |-> copies \cup {<<temp_dir, file_path>>}]

\* processor.py _extract_file(file_path): a cached member is answered with
\* its path in the current directory, a path outside the file list is
\* rejected, the asserts need a directory and an open zip handle, and the
\* member is copied and recorded
_extract_file(file_path) ==
    IF file_path \in extracted_files
    THEN [raised |-> temp_dir = 0, copied |-> FALSE, path |-> temp_dir,
          extracted_files |-> extracted_files, copies |-> copies]
    ELSE IF file_path \notin Members(file_list) \/ temp_dir = 0 \/ ~ zip_ref
    THEN [raised |-> TRUE, copied |-> FALSE, path |-> 0,
          extracted_files |-> extracted_files, copies |-> copies]
    ELSE [raised |-> FALSE, copied |-> TRUE, path |-> temp_dir,
          extracted_files |-> extracted_files \cup {file_path},
          copies |-> copies \cup {<<temp_dir, file_path>>}]

\* _extract_file called by the caller, who is ended by what it raises
ExtractFile ==
    /\ cls = "processor"
    /\ pc = "idle"
    /\ \E file_path \in Members(file_list) \cup {NotAMember} :
          LET x == _extract_file(file_path) IN
          /\ extracted_files' = x.extracted_files
          /\ copies' = x.copies
          /\ pc' = IF x.raised THEN "raised" ELSE "idle"
          /\ hist' = Recorded(hist, file_path, x)
    /\ UNCHANGED << cls, error, queryVars, pairVars, matchVars, archive, closes, plugins, pattern_to_plugin_map, plugins_used, only,
                    file_list, temp_dir, zip_ref, is_open, dirs, created,
                    opened_dir, loaded, sideload_result, runVars, runs, ctx >>

\* ------------------------------------------------------------ extraction
\* an endpoint, compiled as _build_pattern_map compiles it, matches the URL
PatternMatches(url_pattern, url) ==
    /\ ReValid(regex_pattern(url_pattern))
    /\ search(regex_pattern(url_pattern), url)

\* the handler at position h declares an endpoint that matches the URL
Declares(plugs, h, url) ==
    \E j \in 1..Len(plugs[h].endpoints) : PatternMatches(plugs[h].endpoints[j], url)

\* some request of the member has a URL that an eligible handler declares
Matchable(recs, plugs, only_) ==
    \E i \in 1..Len(recs) : \E h \in 1..Len(plugs) :
        /\ recs[i].type = "request" /\ recs[i].url # NoUrl
        /\ only_ # None => plugs[h].name = only_
        /\ Declares(plugs, h, recs[i].url)

RECURSIVE CountFor(_, _)
\* how many of the tuples carry handler h
CountFor(pairs, h) ==
    IF pairs = <<>> THEN 0
    ELSE (IF Head(pairs).plugin = h THEN 1 ELSE 0) + CountFor(Tail(pairs), h)

\* extract(): the counters are set up and the generator is created
StartRun ==
    /\ cls = "processor"
    /\ pc = "idle"
    /\ pc' = "iter"
    /\ unit' = 1
    /\ pending' = <<>>
    /\ plugin_counts' = <<>>
    /\ total_processed' = 0
    /\ result' = NoResult
    /\ hist' = [NoHist EXCEPT !.matchable = hist.matchable,
                              !.requests = hist.requests]
    /\ UNCHANGED << cls, error, queryVars, pairVars, matchVars, archive, closes, plugins, pattern_to_plugin_map, plugins_used, only,
                    file_list, scratchVars, loaded, sideload_result, fin,
                    runs, ctx >>

\* extract() called by a caller who makes MaxRuns calls at most
StartExtract ==
    /\ runs < MaxRuns
    /\ StartRun

\* extract() called again and again on the same processor over the same
\* archive
StartExtractAgain ==
    /\ runs < MaxRepeats
    /\ StartRun

\* The generator moves on to the next WARC member: extract_warc_file, the
\* two passes, and the tuples the member will yield.  The copy of a member
\* is made once (processor.py _extract_file); opening a cached path whose
\* file is not in the current directory raises.
\* the records of the member read before this one, when they are known
Earlier ==
    IF unit > 1 /\ archive[unit - 1].read THEN archive[unit - 1].recs ELSE <<>>

\* variant: the records of the member read before are scanned again with
\* those of this member, as if the two dicts were kept from member to member
UnitRecords_carried(recs, earlier) == earlier \o recs

\* the records the two passes go through for a member: those of its own
\* file, the two dicts being created anew for every member
UnitRecords(recs, earlier) == recs

ReadMember(recs) ==
    /\ pc = "iter"
    /\ pending = <<>>
    /\ unit <= Len(get_warc_paths(file_list))
    /\ LET member == get_warc_paths(file_list)[unit]
           x == _extract_file(member)
       IN  /\ extracted_files' = x.extracted_files
           /\ copies' = x.copies
           /\ IF x.raised \/ <<temp_dir, member>> \notin x.copies
              THEN /\ pc' = "raised"
                   /\ UNCHANGED << plugins_used, pending, unit, hist >>
              ELSE LET s == ScanUnit(UnitRecords(recs, Earlier),
                                     plugins, pattern_to_plugin_map,
                                     only, plugins_used)
                   IN  /\ plugins_used' = s.used
                       /\ pending' = s.pairs
                       /\ pc' = IF s.raised THEN "raised" ELSE "iter"
                       /\ unit' = unit + 1
                       /\ hist' = [hist EXCEPT
                             !.scanned = @ + 1,
                             !.yielded = [h \in Handlers |->
                                            @[h] + CountFor(s.pairs, h)],
                             !.matchable = @ \/ Matchable(recs, plugins, only),
                             !.requests = @ \/ \E i \in 1..Len(recs) :
                                                 /\ recs[i].type = "request"
                                                 /\ recs[i].url # NoUrl,
                             !.resolved = @ \cup ScanUnit(recs, plugins,
                                                          pattern_to_plugin_map,
                                                          only, {}).used]
    /\ UNCHANGED << cls, error, queryVars, pairVars, matchVars, closes, plugins, pattern_to_plugin_map, only, file_list,
                    temp_dir, zip_ref, is_open, dirs, created, opened_dir,
                    loaded, sideload_result, plugin_counts, total_processed,
                    fin, result, runs, ctx >>

\* the member holds any records
NextUnit ==
    /\ \E recs \in Units : ReadMember(recs)
    /\ UNCHANGED archive

\* the member holds the records it held when an earlier run read it: the
\* container does not change between two calls of extract()
NextUnitAgain ==
    /\ unit <= Len(get_warc_paths(file_list))
    /\ \E recs \in (IF archive[unit].read THEN {archive[unit].recs} ELSE Units) :
          /\ ReadMember(recs)
          /\ archive' = IF unit' = unit + 1
                        THEN [archive EXCEPT ![unit] = [read |-> TRUE, recs |-> recs]]
                        ELSE archive

\* variant: the loop of extract() is left when plugin.extract raises, and the
\* generator is never resumed
AfterExtract_break(pend, u, last, returns) ==
    IF returns THEN [pending |-> Tail(pend), unit |-> u]
    ELSE [pending |-> <<>>, unit |-> last + 1]

\* where the generator stands after plugin.extract returned or raised: the
\* except clause logs and the loop goes on with the next tuple
AfterExtract(pend, u, last, returns) == [pending |-> Tail(pend), unit |-> u]

\* variant: every tuple is handed to the first registered handler
Receiver_first(pair) == 1

\* the handler whose extract() the loop of extract() calls for a tuple: the
\* third element of the tuple
Receiver(pair) == pair.plugin

\* One turn of the for loop of extract(): the next tuple is taken from the
\* generator and handed to plugin.extract, which returns or raises.
Dispatch ==
    /\ pc = "iter"
    /\ pending # <<>>
    /\ LET pair == [Head(pending) EXCEPT !.plugin = Receiver(Head(pending))]
           plugin_name == plugins[pair.plugin].name
       IN  \E returns \in BOOLEAN :
             /\ LET a == AfterExtract(pending, unit,
                                      Len(get_warc_paths(file_list)), returns)
                IN  pending' = a.pending /\ unit' = a.unit
             /\ IF returns
                THEN /\ plugin_counts' =
                          DictSet(plugin_counts, plugin_name,
                                  (IF DictHas(plugin_counts, plugin_name)
                                   THEN DictGet(plugin_counts, plugin_name) ELSE 0) + 1)
                     /\ total_processed' = total_processed + 1
                ELSE UNCHANGED << plugin_counts, total_processed >>
             /\ hist' = [hist EXCEPT
                   !.called[pair.plugin] = @ + 1,
                   !.returned[pair.plugin] = @ + (IF returns THEN 1 ELSE 0),
                   !.raise_seen = @ \/ ~ returns,
                   !.after_raise = @ \/ hist.raise_seen,
                   !.first = IF @ = 0 THEN pair.plugin ELSE @]
    /\ UNCHANGED << cls, error, queryVars, pairVars, matchVars, archive, closes, plugins, pattern_to_plugin_map, plugins_used, only,
                    file_list, scratchVars, pc, loaded, sideload_result,
                    fin, result, runs, ctx >>

\* variant: the for loop of extract() is left as soon as a WARC member has
\* no tuple left
StreamExhausted_early(pend, u, last) == pend = <<>>

\* the generator has yielded the tuples of every WARC member: u is the
\* position of the next member to read, last the number of members
StreamExhausted(pend, u, last) == pend = <<>> /\ u > last

\* The generator is exhausted: extract() leaves its for loop and calls
\* finalise_all_plugins.
EndStream ==
    /\ pc = "iter"
    /\ StreamExhausted(pending, unit, Len(get_warc_paths(file_list)))
    /\ pc' = "finalise"
    /\ fin' = 1
    /\ UNCHANGED << cls, error, queryVars, pairVars, matchVars, archive, closes, plugins, pattern_to_plugin_map, plugins_used, only,
                    file_list, scratchVars, loaded, sideload_result, unit,
                    pending, plugin_counts, total_processed, result, runs,
                    ctx, hist >>

\* variant: finalise_all_plugins finalises every registered plugin
WasUsed_always(name, used) == TRUE

\* finalise_all_plugins: plugin.get_info().name in self.stats["plugins_used"]
WasUsed(name, used) == name \in used

\* variant: an exception of finalise() leaves the loop of
\* finalise_all_plugins
AfterFinalise_abort(k, last, returns) == IF returns THEN k + 1 ELSE last + 1

\* where the loop of finalise_all_plugins stands after finalise() of the
\* plugin at position k returned or raised: the except clause logs and the
\* loop goes on with the next plugin
AfterFinalise(k, last, returns) == k + 1

\* variant: the loop of finalise_all_plugins runs through self.plugins from
\* its end
PluginAtTurn_reversed(k, n) == n + 1 - k

\* the position in self.plugins of the plugin that turn k of
\* "for plugin in self.plugins" examines, n being len(self.plugins)
PluginAtTurn(k, n) == k

\* One turn of the loop of finalise_all_plugins: the plugin is finalised if
\* its name is in plugins_used; finalise() returns or raises, and what it
\* raises is caught.
FinaliseStep ==
    /\ pc = "finalise"
    /\ fin <= Len(plugins)
    /\ LET h == PluginAtTurn(fin, Len(plugins)) IN
       IF WasUsed(plugins[h].name, plugins_used)
       THEN \E returns \in BOOLEAN :
              /\ fin' = AfterFinalise(fin, Len(plugins), returns)
              /\ hist' = [hist EXCEPT
                    !.finalised[h] = @ + 1,
                    !.fin_order = Append(@, h),
                    !.fin_raised = @ \/ ~ returns,
                    !.fin_after_raise = @ \/ hist.fin_raised]
       ELSE /\ fin' = fin + 1
            /\ hist' = hist
    /\ UNCHANGED << cls, error, queryVars, pairVars, matchVars, archive, closes, plugins, pattern_to_plugin_map, plugins_used, only,
                    file_list, scratchVars, pc, loaded, sideload_result, unit,
                    pending, plugin_counts, total_processed, result, runs, ctx >>

\* extract() returns its ExtractionResult
Return ==
    /\ pc = "finalise"
    /\ fin > Len(plugins)
    /\ result' = [total_processed |-> total_processed, plugin_counts |-> plugin_counts]
    /\ runs' = runs + 1
    /\ pc' = "idle"
    /\ UNCHANGED << cls, error, queryVars, pairVars, matchVars, archive, closes, plugins, pattern_to_plugin_map, plugins_used, only,
                    file_list, scratchVars, loaded, sideload_result, unit,
                    pending, plugin_counts, total_processed, fin, ctx, hist >>

\* ------------------------------------------------ wacz.py WACZProcessor
\* wacz.py _open() when _is_open is False: mkdtemp, then ZipFile(...), which
\* may raise; _is_open is set only after both
OpenedScratch(zip_ok) ==
    [temp_dir |-> created + 1, dirs |-> dirs \cup {created + 1},
     created |-> created + 1, opened_dir |-> created + 1,
     zip_ref |-> (zip_ok \/ zip_ref), is_open |-> zip_ok]

KeptScratch ==
    [temp_dir |-> temp_dir, dirs |-> dirs, created |-> created,
     opened_dir |-> opened_dir, zip_ref |-> zip_ref, is_open |-> is_open]

SetScratch(o) ==
    /\ temp_dir' = o.temp_dir
    /\ dirs' = o.dirs
    /\ created' = o.created
    /\ opened_dir' = o.opened_dir
    /\ zip_ref' = o.zip_ref
    /\ is_open' = o.is_open

\* wacz.py __init__: validation, then with lazy_load False _open() and
\* _extract_all()
W_Init ==
    /\ cls = "wacz"
    /\ pc = "validate"
    /\ \E path_state \in PathStates, lazy_load \in BOOLEAN, zip_ok \in BOOLEAN :
          /\ error' = [path |-> path_state, raised |-> ValidationError(path_state)]
          /\ IF error'.raised # "none"
             THEN /\ pc' = "failed"
                  /\ UNCHANGED << scratchVars, hist >>
             ELSE IF lazy_load
             THEN /\ pc' = "idle"
                  /\ UNCHANGED << scratchVars, hist >>
             ELSE LET o == OpenedScratch(zip_ok) IN
                  /\ SetScratch(o)
                  /\ pc' = IF zip_ok THEN "idle" ELSE "failed"
                  /\ hist' = IF zip_ok
                             THEN [hist EXCEPT
                                     !.copied = Members(file_list),
                                     !.paths = { <<m, o.temp_dir>> : m \in Members(file_list) }]
                             ELSE hist
                  /\ extracted_files' = IF zip_ok THEN Members(file_list)
                                                  ELSE extracted_files
                  /\ copies' = IF zip_ok
                               THEN copies \cup { <<o.temp_dir, m>> : m \in Members(file_list) }
                               ELSE copies
    /\ UNCHANGED << cls, queryVars, pairVars, matchVars, archive, closes, plugins, pattern_to_plugin_map, plugins_used, only,
                    file_list, loaded, sideload_result, runVars, runs, ctx >>

\* wacz.py __enter__: _open(), which returns at once when already open
W_Enter ==
    /\ cls = "wacz"
    /\ pc = "idle"
    /\ is_open \/ created < MaxOpens
    /\ \E zip_ok \in BOOLEAN :
          LET o == IF is_open THEN KeptScratch ELSE OpenedScratch(zip_ok) IN
          /\ SetScratch(o)
          /\ ctx' = IF o.is_open THEN "in" ELSE ctx
    /\ hist' = IF is_open THEN hist ELSE NewPeriod(hist)
    /\ UNCHANGED << cls, error, queryVars, pairVars, matchVars, archive, closes, plugins, pattern_to_plugin_map, plugins_used, only,
                    file_list, extracted_files, copies, pc, loaded,
                    sideload_result, runVars, runs >>

\* wacz.py _extract_file(file_path): opens the processor if needed, answers
\* a cached member from the cache, rejects a path that is not a member,
\* copies any other member and records it
W_ExtractFile ==
    /\ cls = "wacz"
    /\ pc = "idle"
    /\ is_open \/ created < MaxOpens
    /\ \E file_path \in Members(file_list) \cup {NotAMember}, zip_ok \in BOOLEAN :
          LET o == IF is_open THEN KeptScratch ELSE OpenedScratch(zip_ok)
              cached == file_path \in extracted_files
              member == file_path \in Members(file_list)
              x == [raised |-> ~ o.is_open \/ (~ cached /\ ~ member),
                    copied |-> o.is_open /\ ~ cached /\ member,
                    path   |-> IF o.is_open /\ (cached \/ member)
                               THEN o.temp_dir ELSE 0]
          IN
          /\ SetScratch(o)
          /\ IF x.copied
             THEN /\ extracted_files' = extracted_files \cup {file_path}
                  /\ copies' = copies \cup {<<o.temp_dir, file_path>>}
             ELSE UNCHANGED << extracted_files, copies >>
          /\ hist' = Recorded(IF is_open THEN hist ELSE NewPeriod(hist),
                              file_path, x)
    /\ UNCHANGED << cls, error, queryVars, pairVars, matchVars, archive, closes, plugins, pattern_to_plugin_map, plugins_used, only,
                    file_list, pc, loaded, sideload_result, runVars, runs,
                    ctx >>

\* a processor of processor.py, constructed with manual plugins and used
\* as cli.py uses it
Next ==
    \/ Validate
    \/ Sideload
    \/ Constructed
    \/ WithEnter
    \/ WithExit
    \/ StartExtract
    \/ NextUnit
    \/ Dispatch
    \/ EndStream
    \/ FinaliseStep
    \/ Return

Spec == Init /\ [][Next]_vars

\* a processor of processor.py constructed without manual plugins, whose
\* extract() is called several times inside one with-block over an archive
\* of one WARC member
InitRuns ==
    /\ Init
    /\ file_list = <<0, 1>>

NextRuns ==
    \/ Validate
    \/ Constructed
    \/ WithEnter
    \/ WithExit
    \/ StartExtractAgain
    \/ NextUnitAgain
    \/ Dispatch
    \/ EndStream
    \/ FinaliseStep
    \/ Return

SpecRuns == InitRuns /\ [][NextRuns]_vars

\* a processor of processor.py constructed without manual plugins and
\* without `only`, run over an archive of two WARC members whose records
\* are kept for comparison
InitUnits ==
    /\ Init
    /\ only = None
    /\ file_list = <<0, 1, 2>>

NextUnits ==
    \/ Validate
    \/ Constructed
    \/ WithEnter
    \/ WithExit
    \/ StartExtract
    \/ NextUnitAgain
    \/ Dispatch
    \/ EndStream
    \/ FinaliseStep
    \/ Return

SpecUnits == InitUnits /\ [][NextUnits]_vars

\* a processor of either class, whose caller opens, closes and extracts
\* members in any order
InitScratch ==
    /\ InitProcessor
    /\ only = None
    /\ precs = <<>>
    /\ scan = NoScan
    /\ qurl = <<>>
    /\ parsed = FALSE
    /\ query_data = <<>>
    /\ mpattern = <<>> /\ murl = <<>> /\ mres = NoMatch

NextScratch ==
    \/ Validate
    \/ Constructed
    \/ Enter
    \/ Exit
    \/ ExtractFile
    \/ W_Init
    \/ W_Enter
    \/ W_ExtractFile

SpecScratch == InitScratch /\ [][NextScratch]_vars

\* ----------------------------------------------------------- query data
QChars == {"a", "1", "=", "&"}

\* position of the first occurrence of c in s, 0 if there is none
IndexOf(s, c) ==
    IF \E i \in 1..Len(s) : s[i] = c
    THEN CHOOSE i \in 1..Len(s) : s[i] = c /\ \A k \in 1..(i - 1) : s[k] # c
    ELSE 0

RECURSIVE SplitFrom(_, _, _, _)
SplitFrom(s, sep, i, cur) ==
    IF i > Len(s) THEN <<cur>>
    ELSE IF s[i] = sep THEN <<cur>> \o SplitFrom(s, sep, i + 1, <<>>)
    ELSE SplitFrom(s, sep, i + 1, Append(cur, s[i]))

\* s.split(sep)
Split(s, sep) == SplitFrom(s, sep, 1, <<>>)

\* urlparse(url).query: the text between the first "?" and the first "#"
UrlQuery(url) ==
    LET f == IndexOf(url, "#")
        u == IF f = 0 THEN url ELSE SubSeq(url, 1, f - 1)
        q == IndexOf(u, "?")
    IN  IF q = 0 THEN <<>> ELSE SubSeq(u, q + 1, Len(u))

RECURSIVE ParseFields(_, _)
\* urllib.parse.parse_qsl with keep_blank_values False: empty fields, fields
\* without "=" and fields with an empty value are left out
ParseFields(fields, i) ==
    IF i > Len(fields) THEN <<>>
    ELSE LET nv == fields[i]
             eq == IndexOf(nv, "=")
             value == SubSeq(nv, eq + 1, Len(nv))
         IN  IF nv = <<>> \/ eq = 0 \/ value = <<>>
             THEN ParseFields(fields, i + 1)
             ELSE << [name |-> SubSeq(nv, 1, eq - 1), value |-> value] >>
                  \o ParseFields(fields, i + 1)

RECURSIVE Collect(_, _, _)
\* urllib.parse.parse_qs: the values of each name, in order
Collect(pairs, i, d) ==
    IF i > Len(pairs) THEN d
    ELSE Collect(pairs, i + 1,
                 DictSet(d, pairs[i].name,
                         IF DictHas(d, pairs[i].name)
                         THEN Append(DictGet(d, pairs[i].name), pairs[i].value)
                         ELSE << pairs[i].value >>))

parse_qs(query) == Collect(ParseFields(Split(query, "&"), 1), 1, <<>>)

\* query_data = {k: v[0] if len(v) == 1 else v ...}: a value is a scalar
\* string (list FALSE, items holding it) or a list of strings
QueryData(url) ==
    LET query_params == parse_qs(UrlQuery(url)) IN
    [i \in 1..Len(query_params) |->
        [key   |-> query_params[i].key,
         value |-> [list  |-> Len(query_params[i].value) # 1,
                    items |-> query_params[i].value]]]

QueryURLs ==
    { <<"h", "?">> \o q : q \in UNION { [1..n -> QChars] : n \in 0..MaxQueryLen } }

\* iter_request_response_pairs, lines building query_data for one request URL
ParseQuery ==
    /\ ~ parsed
    /\ parsed' = TRUE
    /\ query_data' = QueryData(qurl)
    /\ UNCHANGED << cls, error, pairVars, matchVars, archive, plugins, pattern_to_plugin_map, plugins_used, only,
                    file_list, scratchVars, pc, loaded, sideload_result,
                    runVars, runs, ctx, hist, closes, qurl >>

InitQuery ==
    /\ InitProcessor
    /\ cls = "processor"
    /\ only = None
    /\ file_list = <<0>>
    /\ precs = <<>>
    /\ scan = NoScan
    /\ qurl \in QueryURLs
    /\ parsed = FALSE
    /\ query_data = <<>>
    /\ mpattern = <<>> /\ murl = <<>> /\ mres = NoMatch

NextQuery == ParseQuery

SpecQuery == InitQuery /\ [][NextQuery]_vars

\* ------------------------------------------------- pairing of one member
\* the records a WARC member may hold when its pairing is examined alone:
\* requests that resolve and share one concurrent response, a request whose
\* URL resolves to no handler, requests without WARC-Concurrent-To, without
\* WARC-Target-URI or without WARC-Record-ID, a request whose http_headers
\* is None; a wanted response, a response nobody is concurrent to, a
\* response without WARC-Record-ID, a response whose http_headers is None
PairRecords ==
    { Request(<<"a", "b">>, "q1", "r1", TRUE),
      Request(<<"a", "b">>, "q2", "r1", TRUE),
      Request(<<"a">>, "q3", "r1", TRUE),
      Request(<<"a", "b">>, "q4", None, TRUE),
      Request(NoUrl, "q5", "r1", TRUE),
      Request(<<"a", "b">>, None, "r1", TRUE),
      Request(<<"a", "b">>, "q6", "r1", FALSE),
      Response("r1", TRUE),
      Response("r2", TRUE),
      Response(None, TRUE),
      Response("r1", FALSE) }

PairUnits == UNION { [1..n -> PairRecords] : n \in 0..MaxPairRecs }

\* iter_request_response_pairs over one member, with the built-in handlers
\* and no restriction
ScanOne ==
    /\ ~ scan.done
    /\ LET s == ScanUnit(precs, plugins, pattern_to_plugin_map, only, plugins_used)
       IN  /\ scan' = [pairs |-> s.pairs, used |-> s.used, raised |-> s.raised,
                       done |-> TRUE]
           /\ plugins_used' = s.used
    /\ UNCHANGED << cls, error, queryVars, matchVars, archive, precs, plugins, pattern_to_plugin_map, only,
                    file_list, scratchVars, pc, loaded, sideload_result,
                    runVars, runs, ctx, hist, closes >>

InitPairs ==
    /\ InitProcessor
    /\ cls = "processor"
    /\ only = None
    /\ file_list = <<0, 1>>
    /\ precs \in PairUnits
    /\ scan = NoScan
    /\ qurl = <<>>
    /\ parsed = FALSE
    /\ query_data = <<>>
    /\ mpattern = <<>> /\ murl = <<>> /\ mres = NoMatch

NextPairs == ScanOne

SpecPairs == InitPairs /\ [][NextPairs]_vars

\* ------------------------------------------------ one endpoint, one URL
PatChars == {"a", "*", "/", "."}
UrlChars == {"a", ".", NL}
Patterns  == UNION { [1..n -> PatChars] : n \in 0..MaxPatLen }
MatchURLs == UNION { [1..n -> UrlChars] : n \in 0..MaxUrlLen }

\* A registry whose only handler declares mpattern is built and asked for
\* murl: _build_pattern_map compiles the endpoint (re.compile may raise) and
\* get_plugin_for_url searches the URL with it.
MatchOne ==
    /\ ~ mres.done
    /\ LET plugs == << [name |-> "p", endpoints |-> <<mpattern>>] >> IN
       mres' = [done     |-> TRUE,
                compiled |-> BuildCompiles(plugs),
                matched  |-> /\ BuildCompiles(plugs)
                             /\ get_plugin_for_url(plugs, _build_pattern_map(plugs),
                                                   murl, None) # 0]
    /\ UNCHANGED << cls, error, queryVars, pairVars, archive, mpattern, murl, plugins,
                    pattern_to_plugin_map, plugins_used, only, file_list,
                    scratchVars, pc, loaded, sideload_result, runVars, runs,
                    ctx, hist, closes >>

InitMatch ==
    /\ InitProcessor
    /\ cls = "processor"
    /\ only = None
    /\ file_list = <<0>>
    /\ precs = <<>>
    /\ scan = NoScan
    /\ qurl = <<>>
    /\ parsed = FALSE
    /\ query_data = <<>>
    /\ mpattern \in Patterns
    /\ murl \in MatchURLs
    /\ mres = NoMatch

NextMatch == MatchOne

SpecMatch == InitMatch /\ [][NextMatch]_vars

\* ============================================================== claims
\* the finalisation loop of the current run has ended
FinaliseLoopDone == pc = "finalise" /\ fin > Len(plugins)

\* C1: in every run, finalise() is invoked exactly once on a handler whose
\* extract() was invoked at least once in that run, and not at all on a
\* handler whose extract() was never invoked (also when a request URL
\* resolved to it in pass 1 but no tuple was yielded for it).
C1_FinaliseIffExtracted ==
    FinaliseLoopDone =>
        \A h \in 1..Len(plugins) :
            hist.finalised[h] = IF hist.called[h] >= 1 THEN 1 ELSE 0

\* the handler owning the first endpoint, in registration order and then
\* declaration order, that matches the URL; 0 if none does
FirstDeclared(plugs, url) ==
    LET fl == Flatten(plugs, 1)
        m  == { i \in 1..Len(fl) : PatternMatches(fl[i].pat, url) }
    IN  IF m = {} THEN 0 ELSE fl[CHOOSE i \in m : \A k \in m : i <= k].plugin

\* C2: for every URL, resolving without restriction returns the handler
\* owning the first matching endpoint in the flattened registration-then-
\* declaration order, so the earlier-registered handler wins also when two
\* handlers declare the identical pattern.
C2_EarlierRegisteredWins ==
    pc \notin {"validate", "failed"} =>
        \A u \in ProbeURLs :
            get_plugin_for_url(plugins, pattern_to_plugin_map, u, None)
                = FirstDeclared(plugins, u)

\* C3: a raising extract() blocks no later tuple: every tuple of the stream
\* has been handed to extract() of its resolved handler or is still to be
\* handed over, and extract() leaves its loop only when none is left and
\* every WARC member has been read.
C3_RaiseDoesNotBlock ==
    pc \in {"iter", "finalise"} =>
        /\ \A h \in Handlers :
              hist.called[h] + CountFor(pending, h) = hist.yielded[h]
        /\ pc = "finalise" =>
              /\ pending = <<>>
              /\ hist.scanned = Len(get_warc_paths(file_list))

\* C3 witness: the loop has ended, an extract() call raised and another
\* extract() call was made after it
C3_Witness ==
    pc = "finalise" /\ hist.raise_seen /\ hist.after_raise

RECURSIVE SumValues(_)
SumValues(d) == IF d = <<>> THEN 0 ELSE Head(d).value + SumValues(Tail(d))

\* C4: in the returned result, plugin_counts of a handler is the number of
\* its extract() calls of the run that returned, a handler without such a
\* call has no entry, and total_processed is the sum of the counts.
C4_CountsPerHandler ==
    (pc = "idle" /\ result # NoResult) =>
        /\ \A h \in 1..Len(plugins) :
              IF hist.returned[h] = 0
              THEN ~ DictHas(result.plugin_counts, plugins[h].name)
              ELSE /\ DictHas(result.plugin_counts, plugins[h].name)
                   /\ DictGet(result.plugin_counts, plugins[h].name) = hist.returned[h]
        /\ result.total_processed = SumValues(result.plugin_counts)

\* C5: while no request URL read matches an endpoint of an eligible handler,
\* no tuple is yielded, no extract() or finalise() is invoked, and a returned
\* result has total_processed 0 and no per-handler count.
C5_NoMatchNothingHappens ==
    ~ hist.matchable =>
        /\ pending = <<>>
        /\ \A h \in Handlers :
              hist.yielded[h] = 0 /\ hist.called[h] = 0 /\ hist.finalised[h] = 0
        /\ result # NoResult =>
              result.total_processed = 0 /\ result.plugin_counts = <<>>

\* C5 witness: extract() returned over an archive with requests none of
\* which an eligible handler declares
C5_Witness ==
    pc = "idle" /\ result # NoResult /\ hist.requests /\ ~ hist.matchable

\* C6: the request URL of every yielded tuple matches an endpoint that the
\* yielded handler itself declares, whatever was sideloaded.
C6_YieldedUrlMatchesOwnPattern ==
    \A k \in 1..Len(pending) :
        Declares(plugins, pending[k].plugin, pending[k].url)

\* C6 witness: a tuple is yielded for a URL matched by a pattern string that
\* the yielded handler and another handler both declare
C6_Witness ==
    /\ pending # <<>>
    /\ LET own == Head(pending).plugin IN
       \E h \in 1..Len(plugins) :
          /\ h # own
          /\ \E i \in 1..Len(plugins[h].endpoints), j \in 1..Len(plugins[own].endpoints) :
                /\ plugins[h].endpoints[i] = plugins[own].endpoints[j]
                /\ PatternMatches(plugins[own].endpoints[j], Head(pending).url)

\* the values of the fields "key=value" of a query string, in URL order
RECURSIVE FieldValues(_, _, _)
FieldValues(fields, i, key) ==
    IF i > Len(fields) THEN <<>>
    ELSE LET eq == IndexOf(fields[i], "=") IN
         IF eq # 0 /\ SubSeq(fields[i], 1, eq - 1) = key
         THEN << SubSeq(fields[i], eq + 1, Len(fields[i])) >>
              \o FieldValues(fields, i + 1, key)
         ELSE FieldValues(fields, i + 1, key)

QueryKeys == UNION { [1..n -> QChars \ {"=", "&"}] : n \in 1..2 }

\* C7: a query key occurring N > 1 times yields the sequence of its N values
\* in URL order, a key occurring once yields a scalar string; occurrences
\* with an empty value count.
C7_QueryOccurrences ==
    parsed =>
        \A key \in QueryKeys :
            LET values == FieldValues(Split(SubSeq(qurl, 3, Len(qurl)), "&"), 1, key) IN
            /\ Len(values) > 1 =>
                  /\ DictHas(query_data, key)
                  /\ DictGet(query_data, key) = [list |-> TRUE, items |-> values]
            /\ Len(values) = 1 =>
                  /\ DictHas(query_data, key)
                  /\ DictGet(query_data, key) = [list |-> FALSE, items |-> values]

\* C8: a sideload_plugin call that fails leaves the handler list and the
\* pattern list as they were, so every URL resolves as before the call.
C8_FailedSideloadKeepsRegistry ==
    [][ (loaded' = loaded + 1 /\ sideload_result' = "raised") =>
            /\ plugins' = plugins
            /\ pattern_to_plugin_map' = pattern_to_plugin_map ]_vars

\* C9: when the with-block is left, normally or because extract() or the
\* tuple stream raised, the scratch directory made on open is deleted, the
\* zip handle is closed and no extracted member is cached.
C9_ExitReleasesScratch ==
    [][ (ctx = "in" /\ closes' = closes + 1) =>
            /\ opened_dir \notin dirs'
            /\ ~ zip_ref'
            /\ extracted_files' = {} ]_vars

\* C9 witness: the with-block was left because the tuple stream raised after
\* a handler had been resolved, and the directory made on open is gone
C9_Witness ==
    /\ ctx = "out" /\ pc = "aborted"
    /\ plugins_used # {}
    /\ opened_dir # 0 /\ opened_dir \notin dirs

\* no zip handle, no scratch directory, no extracted member
Closed == ~ zip_ref /\ temp_dir = 0 /\ extracted_files = {} /\ ~ is_open

\* C10: every close ends in the closed state, and a close of a processor
\* that is already closed, or was never opened, changes nothing.
C10_CloseIdempotent ==
    [][ closes' = closes + 1 =>
            /\ Closed'
            /\ Closed => UNCHANGED << temp_dir, zip_ref, is_open,
                                      extracted_files, dirs, copies >> ]_vars

\* C10 witness: a processor closed a second time after it had been opened
\* and used
C10_Witness ==
    closes = 2 /\ created >= 1 /\ Closed /\ opened_dir \notin dirs

\* C11: constructing a processor for a missing path fails with
\* FileNotFoundError, and for an existing file whose zip directory cannot be
\* read with ValueError; when the validation fails no scratch directory has
\* been made, no sideload attempted, and no tuple, extract() or finalise()
\* has happened.
C11_ConstructionErrors ==
    /\ error.path = "missing" => error.raised = "FileNotFoundError"
    /\ error.path \in {"badzip", "unreadable"} => error.raised = "ValueError"
    /\ error.raised # "none" =>
          /\ pc = "failed"
          /\ created = 0 /\ dirs = {} /\ temp_dir = 0
          /\ loaded = 0 /\ sideload_result = "none"
          /\ plugins = Builtins
          /\ runs = 0 /\ pending = <<>> /\ hist = NoHist

\* C11, the part on the order of events alone
C11_FailsBeforeAnythingElse ==
    error.raised # "none" =>
        /\ pc = "failed"
        /\ created = 0 /\ dirs = {} /\ temp_dir = 0
        /\ loaded = 0 /\ sideload_result = "none"
        /\ runs = 0 /\ pending = <<>> /\ hist = NoHist

\* a request record that has its URL, its own id, its concurrent-response
\* id and its HTTP headers
WellFormedRequest(r) ==
    r.type = "request" /\ r.url # NoUrl /\ r.id # None /\ r.conc # None /\ r.http

\* a response record that has its id and its HTTP headers
WellFormedResponse(r) == r.type = "response" /\ r.id # None /\ r.http

\* the URL resolves to a registered handler
Resolves(url) ==
    \E h \in 1..Len(plugins) :
        /\ only # None => plugins[h].name = only
        /\ Declares(plugins, h, url)

\* C12: a malformed record of a WARC member is skipped: the stream does not
\* raise because of it, and every well-formed request whose URL resolves
\* and whose well-formed response is in the member is yielded in a tuple.
C12_MalformedRecordSkipped ==
    scan.done =>
        /\ ~ scan.raised
        /\ \A i, j \in 1..Len(precs) :
              ( /\ WellFormedRequest(precs[i]) /\ Resolves(precs[i].url)
                /\ WellFormedResponse(precs[j]) /\ precs[j].id = precs[i].conc )
              => \E k \in 1..Len(scan.pairs) :
                    precs[scan.pairs[k].request].id = precs[i].id

\* C12, for members in which every record has its HTTP headers: records
\* that miss an id or a URL are skipped
C12_MissingIdSkipped ==
    (\A i \in 1..Len(precs) : precs[i].http) => C12_MalformedRecordSkipped

\* C13: a raising finalise() blocks nothing: when the loop of
\* finalise_all_plugins has ended, finalise() has been called on every
\* registered handler whose name is in the used set, and extract() then
\* returns its result.
C13_FinaliseRaiseDoesNotBlock ==
    /\ FinaliseLoopDone =>
          \A h \in 1..Len(plugins) :
              plugins[h].name \in plugins_used => hist.finalised[h] = 1
    /\ (pc = "idle" /\ hist.fin_raised) => result # NoResult

\* C13 witness: extract() has returned its result after a finalise() raised
\* and finalise() was called on a later handler
C13_Witness ==
    pc = "idle" /\ result # NoResult /\ hist.fin_raised /\ hist.fin_after_raise

\* C14: the finalise() calls of a run are issued in registry order,
\* whatever the order in which the handlers received their first tuples.
C14_FinaliseInRegistryOrder ==
    \A a, b \in 1..Len(hist.fin_order) :
        a < b => hist.fin_order[a] < hist.fin_order[b]

\* C14 witness: two handlers were finalised, and the one registered later
\* had received the first tuple of the run
C14_Witness ==
    /\ FinaliseLoopDone
    /\ Len(hist.fin_order) >= 2
    /\ hist.first # 0
    /\ hist.first # hist.fin_order[1]
    /\ hist.called[hist.fin_order[1]] >= 1

\* C15: within a run no extract() call is issued after a finalise() call:
\* finalise() is called only when the tuples of every WARC member have been
\* yielded and handed over.
C15_NoExtractAfterFinalise ==
    [][ /\ (\E h \in Handlers : hist'.called[h] > hist.called[h]) =>
              hist.fin_order = <<>>
        /\ (hist'.fin_order # hist.fin_order /\ hist'.fin_order # <<>>) =>
              /\ pc = "finalise"
              /\ pending = <<>>
              /\ unit > Len(get_warc_paths(file_list)) ]_vars

\* C15 witness: a handler is finalised after extract() calls were made
C15_Witness ==
    /\ pc = "finalise"
    /\ hist.fin_order # <<>>
    /\ \E h \in Handlers : hist.called[h] >= 1

\* handler names given as restriction: the registered ones and one that no
\* handler reports
ProbeNames == Names \cup {"zz"}

\* C16: for every URL and every handler name n, resolving with the
\* restriction n returns a handler named n if and only if a handler named n
\* declares an endpoint that matches the URL, returns no match otherwise,
\* and never returns a handler of another name.
C16_RestrictedResolve ==
    pc \notin {"validate", "failed"} =>
        \A u \in ProbeURLs, n \in ProbeNames :
            LET r == get_plugin_for_url(plugins, pattern_to_plugin_map, u, n) IN
            /\ r # 0 => plugins[r].name = n /\ Declares(plugins, r, u)
            /\ r # 0 <=> \E h \in 1..Len(plugins) :
                             plugins[h].name = n /\ Declares(plugins, h, u)

\* C16, for registries in which no compiled pattern has lost its entry of
\* the pattern map
C16_WithoutLostEntries ==
    Len(pattern_to_plugin_map) = Len(Flatten(plugins, 1)) => C16_RestrictedResolve

\* record i of the member is a retained request: it has its URL, its own id
\* and its concurrent-response id, and its URL resolved to a handler
Retained(i) ==
    /\ precs[i].type = "request"
    /\ precs[i].url # NoUrl /\ precs[i].id # None /\ precs[i].conc # None
    /\ get_plugin_for_url(plugins, pattern_to_plugin_map, precs[i].url, only) # 0

\* the concurrent-response id of record i is the id of a response record
Found(i) ==
    \E j \in 1..Len(precs) :
        precs[j].type = "response" /\ precs[j].id = precs[i].conc

\* C17: scanning a WARC member yields exactly one tuple for every retained
\* request whose response is in the member, every yielded tuple is such a
\* request with a response record of that id, and the scan does not raise.
C17_OnePairPerRetainedRequest ==
    scan.done =>
        /\ ~ scan.raised
        /\ \A i \in 1..Len(precs) :
              (Retained(i) /\ Found(i)) =>
                  Cardinality({ k \in 1..Len(scan.pairs) : scan.pairs[k].request = i }) = 1
        /\ \A k \in 1..Len(scan.pairs) :
              LET p == scan.pairs[k] IN
              /\ Retained(p.request) /\ Found(p.request)
              /\ precs[p.response].type = "response"
              /\ precs[p.response].id = precs[p.request].conc

\* C17, for members in which every record has its HTTP headers and no two
\* request records carry the same WARC-Record-ID
C17_WithHeadersAndDistinctIds ==
    ( /\ \A i \in 1..Len(precs) : precs[i].http
      /\ \A i, j \in 1..Len(precs) :
            ( /\ i # j
              /\ precs[i].type = "request" /\ precs[j].type = "request" )
            => precs[i].id # precs[j].id )
    => C17_OnePairPerRetainedRequest

\* C18: every tuple of the stream is handed to extract() once, on the
\* handler it was resolved to: a step that calls extract() calls it once, on
\* the handler of the tuple at the head of the stream, and takes that tuple
\* off the stream; when the loop is left every handler has had as many calls
\* as tuples were yielded for it.
C18_DispatchedOnceOnResolved ==
    [][ /\ \A h \in Handlers :
              hist'.called[h] > hist.called[h] =>
                  /\ pending # <<>>
                  /\ h = Head(pending).plugin
                  /\ hist'.called[h] = hist.called[h] + 1
                  /\ pending' = Tail(pending)
                  /\ \A g \in Handlers \ {h} : hist'.called[g] = hist.called[g]
        /\ (pc = "iter" /\ pc' = "finalise") =>
              \A h \in Handlers : hist.called[h] = hist.yielded[h]
      ]_vars

\* C18 witness: the loop has ended and both the first and the second
\* registered handler had a tuple handed to extract()
C18_Witness ==
    /\ pc = "finalise"
    /\ Len(plugins) >= 2
    /\ hist.called[1] >= 1 /\ hist.called[2] >= 1

\* C19: in the tuples yielded for a WARC member no response record is
\* delivered twice: two different tuples carry different response records.
C19_ResponseInOnePair ==
    scan.done =>
        \A k, l \in 1..Len(scan.pairs) :
            k # l => scan.pairs[k].response # scan.pairs[l].response

\* C19, for members in which no two retained requests carry the same
\* concurrent-response id
C19_WithDistinctConcurrentIds ==
    (\A i, j \in 1..Len(precs) :
        (i # j /\ Retained(i) /\ Retained(j) /\ precs[i].id # precs[j].id)
        => precs[i].conc # precs[j].conc)
    => C19_ResponseInOnePair

\* C20: since the processor was last opened or closed, no member has been
\* copied twice, no member has been answered with two different paths, a
\* call for a path outside the file list raised, and only members of the
\* file list are in the extracted set.
C20_MaterializeOnce ==
    /\ ~ hist.recopied
    /\ \A p, q \in hist.paths : p[1] = q[1] => p[2] = q[2]
    /\ (hist.last # NoCall /\ hist.last.file \notin Members(file_list))
          => hist.last.raised
    /\ extracted_files \subseteq Members(file_list)
    /\ hist.copied \subseteq Members(file_list)

\* C20 witness: a member was copied, a later call for it was answered with
\* a path, and the last call, for a path outside the file list, raised
C20_Witness ==
    /\ hist.repeat
    /\ hist.copied # {}
    /\ hist.last.file = NotAMember /\ hist.last.raised

\* C21: once __init__ has loaded its manual plugins without a raise, no two
\* handlers of the registry report the same name from get_info().
C21_NamesDistinct ==
    (pc \notin {"validate", "failed"} /\ sideload_result # "raised") =>
        \A a, b \in 1..Len(plugins) :
            a # b => plugins[a].name # plugins[b].name

\* C22: when the stream of a run is exhausted, the used set holds exactly
\* the names of the handlers for which a tuple was yielded in the run.
C22_UsedSetIsYielded ==
    pc = "finalise" =>
        plugins_used = { plugins[h].name : h \in { g \in 1..Len(plugins) : hist.yielded[g] >= 1 } }

\* C22, one direction: every handler for which a tuple was yielded in the
\* run has its name in the used set
C22_YieldedAreUsed ==
    pc = "finalise" =>
        \A h \in 1..Len(plugins) : hist.yielded[h] >= 1 => plugins[h].name \in plugins_used

\* C23: once __init__ has loaded its manual plugins without a raise, the
\* pattern map holds one entry for every (handler, endpoint) combination, in
\* registration order and then declaration order, each with the compiled
\* endpoint as key and the declaring handler as value.
C23_OneEntryPerDeclaration ==
    (pc \notin {"validate", "failed"} /\ sideload_result # "raised") =>
        LET fl == Flatten(plugins, 1) IN
        /\ Len(pattern_to_plugin_map) = Len(fl)
        /\ \A i \in 1..Len(fl) :
              /\ pattern_to_plugin_map[i].key = regex_pattern(fl[i].pat)
              /\ pattern_to_plugin_map[i].value = fl[i].plugin

\* C23, for registries in which no two declarations compile to the same
\* regular expression
C23_WithDistinctPatterns ==
    (LET fl == Flatten(plugins, 1) IN
     \A i, j \in 1..Len(fl) :
        i # j => regex_pattern(fl[i].pat) # regex_pattern(fl[j].pat))
    => C23_OneEntryPerDeclaration

\* s.startswith(p)
StartsWith(s, p) == Len(p) <= Len(s) /\ SubSeq(s, 1, Len(p)) = p

\* what the three declared forms say about a pattern and a URL: the inner
\* text of /.../ searched as a regular expression, a string-prefix test for
\* a pattern ending in "*", string equality otherwise
FormMatches(p, u) ==
    LET n == Len(p) IN
    IF n >= 1 /\ p[1] = "/" /\ p[n] = "/"
    THEN search(SubSeq(p, 2, n - 1), u)
    ELSE IF n >= 1 /\ p[n] = "*"
    THEN StartsWith(u, SubSeq(p, 1, n - 1))
    ELSE u = p

\* C24: an endpoint that compiles matches a URL exactly when its declared
\* form says so: regular-expression search for /.../, string prefix for a
\* trailing "*", string equality otherwise.
C24_ThreeForms ==
    (mres.done /\ mres.compiled) => (mres.matched <=> FormMatches(mpattern, murl))

\* C24, for URLs without a newline character
C24_WithoutNewline ==
    (\A i \in 1..Len(murl) : murl[i] # NL) => C24_ThreeForms

\* the rearrangements of 1..n
Rearrangements(n) ==
    { f \in [1..n -> 1..n] : \A a, b \in 1..n : a # b => f[a] # f[b] }

\* the tuples yielded for a member, as (request URL, response record,
\* handler), whatever the positions of the records
PairSet(recs, pairs) ==
    { << pairs[k].url, recs[pairs[k].response], pairs[k].plugin >> : k \in 1..Len(pairs) }

\* no two records of the member carry the same WARC-Record-ID
DistinctIds(recs) ==
    \A i, j \in 1..Len(recs) :
        (i # j /\ recs[i].id # None) => recs[i].id # recs[j].id

\* C25: for a WARC member whose records have distinct ids, every
\* rearrangement of its records yields the same set of (request URL,
\* response record, handler) tuples, and raises exactly when the member as
\* given raises.
C25_OrderIndependent ==
    (scan.done /\ DistinctIds(precs)) =>
        \A f \in Rearrangements(Len(precs)) :
            LET recs == [i \in 1..Len(precs) |-> precs[f[i]]]
                s    == ScanUnit(recs, plugins, pattern_to_plugin_map, only, {})
            IN  /\ PairSet(recs, s.pairs) = PairSet(precs, scan.pairs)
                /\ s.raised = scan.raised

\* C25 witness: a tuple was yielded for a request whose response record
\* stands before it in the member, next to a record of another request
C25_Witness ==
    /\ scan.done /\ DistinctIds(precs)
    /\ Len(precs) >= 3
    /\ \E k \in 1..Len(scan.pairs) : scan.pairs[k].response < scan.pairs[k].request

\* C26: at any time at most one scratch directory made by the processor
\* exists, and none exists while the processor is closed.
C26_OneScratchDirectory ==
    /\ Cardinality(dirs) <= 1
    /\ Closed => dirs = {}

\* C26, for a processor that is opened once at most
C26_OpenedOnce ==
    created <= 1 =>
        /\ Cardinality(dirs) <= 1
        /\ (Closed /\ closes >= 1) => dirs = {}

\* C27: every member recorded in the extracted set has its copy in the
\* scratch directory the processor holds now, so the set is empty while no
\* directory is held.
C27_CacheInCurrentDirectory ==
    \A m \in extracted_files :
        /\ temp_dir # 0
        /\ temp_dir \in dirs
        /\ <<temp_dir, m>> \in copies

\* C27, the part about closing: a step that closes the processor leaves the
\* extracted set empty and no directory held
C27_CloseEmptiesCache ==
    [][ closes' = closes + 1 => (extracted_files' = {} /\ temp_dir' \notin dirs') ]_vars

\* C28: a sideload_plugin call that returns appends one handler to the
\* registry, leaves the handlers registered before in place and in order,
\* and every URL that resolved to a handler before the call resolves to the
\* same handler after it.
C28_SideloadKeepsResolution ==
    [][ (loaded' = loaded + 1 /\ sideload_result' = "ok") =>
           /\ Len(plugins') = Len(plugins) + 1
           /\ SubSeq(plugins', 1, Len(plugins)) = plugins
           /\ \A u \in ProbeURLs :
                 LET before == get_plugin_for_url(plugins, pattern_to_plugin_map, u, None)
                 IN  before # 0 =>
                        get_plugin_for_url(plugins', pattern_to_plugin_map', u, None) = before
      ]_vars

\* C28, the registry alone: a sideload_plugin call that returns appends one
\* handler and leaves the handlers registered before in place and in order
C28_SideloadAppendsOne ==
    [][ (loaded' = loaded + 1 /\ sideload_result' = "ok") =>
           /\ Len(plugins') = Len(plugins) + 1
           /\ SubSeq(plugins', 1, Len(plugins)) = plugins
      ]_vars

\* the result returned by the run that just ended counts the extract() calls
\* of that run that returned
CountsThisRun ==
    /\ result.total_processed = SumValues(result.plugin_counts)
    /\ \A h \in 1..Len(plugins) :
          IF hist.returned[h] = 0
          THEN ~ DictHas(result.plugin_counts, plugins[h].name)
          ELSE /\ DictHas(result.plugin_counts, plugins[h].name)
               /\ DictGet(result.plugin_counts, plugins[h].name) = hist.returned[h]

\* C29: a call of extract() that follows an earlier call on the same open
\* processor invokes finalise() on exactly the handlers whose extract() was
\* invoked during that call, and its result counts that call's extract()
\* invocations that returned.
C29_LaterRunIndependent ==
    /\ (runs >= 1 /\ FinaliseLoopDone) =>
          \A h \in 1..Len(plugins) :
              hist.finalised[h] = IF hist.called[h] >= 1 THEN 1 ELSE 0
    /\ (runs >= 2 /\ pc = "idle" /\ result # NoResult) => CountsThisRun

\* C29, with "resolved a request URL" in place of "had extract() invoked": a
\* later call invokes finalise() on exactly the handlers that resolved a
\* request URL during that call, whatever the earlier call left in the used
\* set, and its result counts that call alone
C29_LaterRunOwnResolutions ==
    /\ (runs >= 1 /\ FinaliseLoopDone) =>
          \A h \in 1..Len(plugins) :
              hist.finalised[h] = IF plugins[h].name \in hist.resolved THEN 1 ELSE 0
    /\ (runs >= 2 /\ pc = "idle" /\ result # NoResult) => CountsThisRun

\* the tuple pairs a request record and a response record of recs: the
\* request is concurrent to the response and carries the tuple's URL
PairedWithin(p, recs) ==
    /\ p.request \in 1..Len(recs) /\ p.response \in 1..Len(recs)
    /\ recs[p.request].type = "request" /\ recs[p.response].type = "response"
    /\ recs[p.request].conc = recs[p.response].id
    /\ recs[p.request].url = p.url

\* C30: the WARC members are read in the stored order, and every tuple that
\* waits to be taken from the generator pairs a request and a response of
\* the member read last, so no tuple crosses members and the tuples of one
\* member are all taken before the next member is read.
C30_PairsWithinUnit ==
    /\ \A k \in 1..MaxUnits :
          /\ archive[k].read => \A j \in 1..(k - 1) : archive[j].read
          /\ runs = 0 => (archive[k].read <=> k < unit)
    /\ pending # <<>> =>
          /\ unit >= 2 /\ archive[unit - 1].read
          /\ \A k \in 1..Len(pending) : PairedWithin(pending[k], archive[unit - 1].recs)

\* C30 witness: both members have been read, the first holds the response
\* that a resolved request of the second is concurrent to, the second holds
\* no response, and no tuple was yielded for the second
C30_Witness ==
    /\ pc = "iter" /\ unit = 3 /\ pending = <<>>
    /\ archive[1].read /\ archive[2].read
    /\ \E i \in 1..Len(archive[1].recs), j \in 1..Len(archive[2].recs) :
          /\ archive[1].recs[i].type = "response"
          /\ archive[2].recs[j].type = "request"
          /\ archive[2].recs[j].http
          /\ archive[2].recs[j].conc = archive[1].recs[i].id
          /\ get_plugin_for_url(plugins, pattern_to_plugin_map,
                                archive[2].recs[j].url, only) # 0
    /\ \A j \in 1..Len(archive[2].recs) : archive[2].recs[j].type # "response"

====
